---- MODULE Spec2Model ----
(***************************************************************************)
(* Model of honeybee_schema/model.py: the pydantic (v1) classes Face3D,    *)
(* Shade, Door, Aperture, Face, Room and Model, read as what constructing  *)
(* each class from a key-value record does: fields are validated in        *)
(* declaration order, every field's errors are collected, a class          *)
(* validator runs after its field's type validation succeeded, and the     *)
(* object exists only when no error was collected.                         *)
(*                                                                         *)
(* Left out: display_name, the type field of the properties envelopes and  *)
(* the payload of the energy properties.                                   *)
(***************************************************************************)
EXTENDS Integers, Sequences, FiniteSets

VARIABLES kind, input, pc, result, output

vars == <<kind, input, pc, result, output>>

---------------------------------------------------------------------------
(* Bounds of the model.                                                    *)

\* longest point (number of coordinates) tried
MaxCoords == 4
\* longest boundary (number of points) tried
MaxPts == 3
\* longest hole loop (number of points) tried
MaxLoopPts == 2
\* most hole loops tried
MaxHoles == 1
\* longest boundary_condition_objects tried
MaxObjs == 4
\* longest list of shades tried
MaxShades == 2
\* longest list of apertures of a face tried
MaxApertures == 2
\* longest list of faces of a room tried
MaxFaces == 5
\* longest list of orphaned faces of a model tried
MaxOrphans == 2
\* steps to the degree in which angles are tried
AngleResolution == 2

---------------------------------------------------------------------------
(* Values of a key-value record.                                           *)

\* a key the record does not hold
Absent == [tag |-> "absent"]
\* a key holding null (None)
Null == [tag |-> "null"]
\* a key holding v
Val(v) == [tag |-> "value", v |-> v]

\* a number, and a string that spells the number v
Flt(v) == [k |-> "float", v |-> v]
Str(v) == [k |-> "str", v |-> v]

\* no object: construction raised ValidationError
NoValue == [tag |-> "none"]
NotBuilt == [errors |-> <<>>, value |-> NoValue]

SeqsUpTo(S, n) == UNION {[1..k -> S] : k \in 0..n}

\* one entry of ValidationError.errors(): loc is the path of field names and
\* list indexes (0-based, NoIndex for a field that is not a list item)
NoIndex == 0 - 1
Fld(f) == [f |-> f, i |-> NoIndex]
Item(f, i) == [f |-> f, i |-> i]
Err(loc, type) == [loc |-> loc, type |-> type]
\* the errors of a nested value, under the location of the field holding it
Under(l, errs) == [n \in 1..Len(errs) |-> [errs[n] EXCEPT !.loc = <<l>> \o @]]

RECURSIVE Flatten(_)
Flatten(ss) == IF ss = <<>> THEN <<>> ELSE Head(ss) \o Flatten(Tail(ss))

---------------------------------------------------------------------------
(* pydantic's validation of a model, a field and a list field. Every       *)
(* validation yields [errors, value]; value is meaningful when errors is   *)
(* empty.                                                                  *)

Ok(v) == [errors |-> <<>>, value |-> v]
Fail(f, type) == [errors |-> << Err(<<Fld(f)>>, type) >>, value |-> NoValue]
Missing(f) == Fail(f, "value_error.missing")
NoneNotAllowed(f) == Fail(f, "type_error.none.not_allowed")

\* validate_model: the fields (names[i] validated as rs[i]) in declaration
\* order, all errors collected; the object is built only without errors
Build(names, rs) ==
    IF \A i \in 1..Len(rs) : rs[i].errors = <<>>
    THEN Ok([n \in {names[i] : i \in 1..Len(names)} |->
                rs[CHOOSE i \in 1..Len(names) : names[i] = n].value])
    ELSE [errors |-> Flatten([i \in 1..Len(rs) |-> rs[i].errors]), value |-> NoValue]

\* a class validator on field f: v is the value it is given, outcome "ok" or
\* the exception it raised
Validated(f, v, outcome) == IF outcome = "ok" THEN Ok(v) ELSE Fail(f, outcome)

\* a nested model in field f, built as r
Nested(f, r) == [errors |-> Under(Fld(f), r.errors), value |-> r.value]

\* Collect reporting the items' errors last item first
Collect_last_first(f, rs) ==
    [errors |-> Flatten([i \in 1..Len(rs) |->
                    Under(Item(f, Len(rs) - i), rs[Len(rs) + 1 - i].errors)]),
     value |-> Val([i \in 1..Len(rs) |-> rs[i].value])]

\* a list in field f whose items were built as rs
Collect(f, rs) ==
    [errors |-> Flatten([i \in 1..Len(rs) |-> Under(Item(f, i - 1), rs[i].errors)]),
     value |-> Val([i \in 1..Len(rs) |-> rs[i].value])]

\* float_validator: float(v), which takes a number or a numeric string
float_validator(tok) == Flt(tok.v)

\* constr(regex='^Name$'): the string must be the class's name
constr_regex(name, v) == v = name

\* a field `type: constr(regex='^Name$') = 'Name'`
TypeField(name, t) ==
    IF t.tag = "absent" THEN Ok(name)
    ELSE IF t.tag = "null" THEN NoneNotAllowed("type")
    ELSE IF constr_regex(name, t.v) THEN Ok(t.v)
    ELSE Fail("type", "value_error.str.regex")

---------------------------------------------------------------------------
(* Plane, Face3D                                                           *)

\* min_items=3, max_items=3 of Plane.n, Plane.o and Plane.x
PlaneMinItems == 3
PlaneMaxItems == 3

\* len(i) == 3 in check_num_items / len(pt) == 3 in check_num_items_holes
BoundaryPointLen == 3
HolePointLen == 3

\* @validator('boundary'): "ok" or the exception raised
check_num_items(v) ==
    IF \A i \in 1..Len(v) : Len(v[i]) = BoundaryPointLen
    THEN "ok" ELSE "assertion_error"

\* @validator('holes'): v is the field's value, None included (the validator
\* of a field that allows None runs on an explicit None, and iterating None
\* raises TypeError)
check_num_items_holes(v) ==
    IF v.tag = "null" THEN "type_error"
    ELSE IF \A l \in 1..Len(v.v) : \A p \in 1..Len(v.v[l]) :
                Len(v.v[l][p]) = HolePointLen
    THEN "ok" ELSE "assertion_error"

\* FloatList handing the coordinates back last first
FloatList_reversed(pt) == [j \in 1..Len(pt) |-> float_validator(pt[Len(pt) + 1 - j])]

\* List[float]
FloatList(pt) == [j \in 1..Len(pt) |-> float_validator(pt[j])]
\* List[List[float]]
PointList(pts) == [i \in 1..Len(pts) |-> FloatList(pts[i])]
\* List[List[List[float]]], or None
HolesParsed(h) ==
    IF h.tag = "value" THEN Val([l \in 1..Len(h.v) |-> PointList(h.v[l])]) ELSE Null

\* n, o: List[float] = Field(..., min_items=3, max_items=3) and
\* x: List[float] = Field(default=None, min_items=3, max_items=3)
VectorField(f, v, required) ==
    IF v.tag = "absent" THEN (IF required THEN Missing(f) ELSE Ok(Null))
    ELSE IF v.tag = "null" THEN (IF required THEN NoneNotAllowed(f) ELSE Ok(Null))
    ELSE IF Len(v.v) < PlaneMinItems THEN Fail(f, "value_error.list.min_items")
    ELSE IF Len(v.v) > PlaneMaxItems THEN Fail(f, "value_error.list.max_items")
    ELSE Ok(Val(FloatList(v.v)))

\* Plane(**x): x = [type, n, o, x]
Plane(x) ==
    Build(<<"type", "n", "o", "x">>,
          <<TypeField("Plane", x.type), VectorField("n", x.n, TRUE),
            VectorField("o", x.o, TRUE), VectorField("x", x.x, FALSE)>>)

\* a nested model built as r, as the value of an optional field
Optional(r) == IF r.errors = <<>> THEN Ok(Val(r.value)) ELSE r

\* plane: Plane = Field(default=None)
PlaneField(p) ==
    IF p.tag = "value" THEN Optional(Nested("plane", Plane(p.v))) ELSE Ok(Null)

\* boundary: List[List[float]] = Field(...)
BoundaryField(b) == Validated("boundary", PointList(b), check_num_items(PointList(b)))

\* holes: List[List[List[float]]] = Field(default=None)
HolesField(h) ==
    IF h.tag = "absent" THEN Ok(Null)
    ELSE Validated("holes", HolesParsed(h), check_num_items_holes(HolesParsed(h)))

\* Face3D(**x): x = [type, boundary, holes, plane]
Face3D(x) ==
    Build(<<"type", "boundary", "holes", "plane">>,
          <<TypeField("Face3D", x.type), BoundaryField(x.boundary),
            HolesField(x.holes), PlaneField(x.plane)>>)

---------------------------------------------------------------------------
(* Fields shared by the entities.                                          *)

\* NamedBaseModel.name: required, not empty
NameField(n) ==
    IF n.tag = "absent" THEN Missing("name")
    ELSE IF n.tag = "null" THEN NoneNotAllowed("name")
    ELSE IF n.v = "" THEN Fail("name", "value_error.any_str.min_length")
    ELSE Ok(n.v)

\* geometry: Face3D = Field(...)
GeometryField(g) ==
    IF g.tag = "absent" THEN Missing("geometry")
    ELSE IF g.tag = "null" THEN NoneNotAllowed("geometry")
    ELSE Nested("geometry", Face3D(g.v))

\* <Class>PropertiesAbridged: its energy payload is opaque, optional
\* (default=None) below Room and required from Room up
Properties(p, energyRequired) ==
    IF p.energy.tag = "value" THEN Ok([energy |-> p.energy])
    ELSE IF ~ energyRequired THEN Ok([energy |-> Null])
    ELSE IF p.energy.tag = "absent" THEN Missing("energy")
    ELSE NoneNotAllowed("energy")

\* properties: <Class>PropertiesAbridged = Field(...)
PropertiesField(p, energyRequired) ==
    IF p.tag = "absent" THEN Missing("properties")
    ELSE IF p.tag = "null" THEN NoneNotAllowed("properties")
    ELSE Nested("properties", Properties(p.v, energyRequired))

\* a bool field f with default False
BoolField(f, b) ==
    IF b.tag = "absent" THEN Ok(FALSE)
    ELSE IF b.tag = "null" THEN NoneNotAllowed(f)
    ELSE Ok(b.v)

---------------------------------------------------------------------------
(* Boundary conditions (bc.py): a record with a type discriminator; only   *)
(* Surface carries boundary_condition_objects, a list of names.            *)

BCMemberErrors(member, bc) ==
    (IF constr_regex(member, bc.type) THEN <<>>
     ELSE << Err(<<Fld("type")>>, "value_error.str.regex") >>)
    \o
    (IF member = "Surface" /\ bc.boundary_condition_objects.tag = "absent"
     THEN << Err(<<Fld("boundary_condition_objects")>>, "value_error.missing") >>
     ELSE <<>>)

BCMemberValue(member, bc) ==
    [type |-> member,
     boundary_condition_objects |->
        IF member = "Surface" THEN bc.boundary_condition_objects ELSE Absent]

\* Union[...]: the members are tried in order and the first that validates
\* is taken; when none does, the errors of all of them are reported
UnionMatch(members, bc) ==
    {i \in 1..Len(members) : BCMemberErrors(members[i], bc) = <<>>}
UnionField(members, bc) ==
    IF UnionMatch(members, bc) = {}
    THEN [errors |-> Flatten([i \in 1..Len(members) |-> BCMemberErrors(members[i], bc)]),
          value |-> NoValue]
    ELSE Ok(BCMemberValue(
                members[CHOOSE i \in UnionMatch(members, bc) :
                            \A j \in UnionMatch(members, bc) : i <= j], bc))

\* Door's union with Ground let in
DoorBC_with_ground == <<"Ground", "Outdoors", "Surface">>

\* boundary_condition: Union[Outdoors, Surface]
DoorBC == <<"Outdoors", "Surface">>
ApertureBC == <<"Outdoors", "Surface">>
\* boundary_condition: Union[Ground, Outdoors, Adiabatic, Surface]
FaceBC == <<"Ground", "Outdoors", "Adiabatic", "Surface">>

\* len(v.boundary_condition_objects) == N in the three suface_bc_objects
DoorArity == 3
ApertureArity == 3
FaceArity == 2

\* suface_bc_objects accepting fewer objects than the arity
suface_bc_objects_at_most(arity, v) ==
    IF v.type = "Surface"
    THEN IF Len(v.boundary_condition_objects.v) <= arity THEN "ok" ELSE "assertion_error"
    ELSE "ok"

\* @validator('boundary_condition') suface_bc_objects of an owner with the
\* given arity, on the validated union value v
suface_bc_objects(arity, v) ==
    IF v.type = "Surface"
    THEN IF Len(v.boundary_condition_objects.v) = arity THEN "ok" ELSE "assertion_error"
    ELSE "ok"

\* the field boundary_condition of an owner: the union, then its validator
BoundaryConditionField(members, arity, bc) ==
    IF bc.tag = "absent" THEN Missing("boundary_condition")
    ELSE IF bc.tag = "null" THEN NoneNotAllowed("boundary_condition")
    ELSE IF UnionMatch(members, bc.v) = {}
         THEN Nested("boundary_condition", UnionField(members, bc.v))
    ELSE Validated("boundary_condition", UnionField(members, bc.v).value,
                   suface_bc_objects(arity, UnionField(members, bc.v).value))

---------------------------------------------------------------------------
(* Shade, Door, Aperture                                                   *)

\* Shade(**x): x = [name, type, geometry, properties]
Shade(x) ==
    Build(<<"name", "type", "geometry", "properties">>,
          <<NameField(x.name), TypeField("Shade", x.type), GeometryField(x.geometry),
            PropertiesField(x.properties, FALSE)>>)

\* a field List[Shade] = Field(default=None)
ShadeList(f, l) ==
    IF l.tag = "value" THEN Collect(f, [i \in 1..Len(l.v) |-> Shade(l.v[i])]) ELSE Ok(Null)

\* Door(**x): x = [name, type, geometry, boundary_condition, is_glass, properties]
Door(x) ==
    Build(<<"name", "type", "geometry", "boundary_condition", "is_glass", "properties">>,
          <<NameField(x.name), TypeField("Door", x.type), GeometryField(x.geometry),
            BoundaryConditionField(DoorBC, DoorArity, x.boundary_condition),
            BoolField("is_glass", x.is_glass),
            PropertiesField(x.properties, FALSE)>>)

\* Aperture(**x): x = [name, type, geometry, boundary_condition, is_operable,
\*                     indoor_shades, outdoor_shades, properties]
Aperture(x) ==
    Build(<<"name", "type", "geometry", "boundary_condition", "is_operable",
            "indoor_shades", "outdoor_shades", "properties">>,
          <<NameField(x.name), TypeField("Aperture", x.type), GeometryField(x.geometry),
            BoundaryConditionField(ApertureBC, ApertureArity, x.boundary_condition),
            BoolField("is_operable", x.is_operable),
            ShadeList("indoor_shades", x.indoor_shades),
            ShadeList("outdoor_shades", x.outdoor_shades),
            PropertiesField(x.properties, FALSE)>>)

\* fields List[Aperture] and List[Door] = Field(default=None)
ApertureList(f, l) ==
    IF l.tag = "value" THEN Collect(f, [i \in 1..Len(l.v) |-> Aperture(l.v[i])]) ELSE Ok(Null)
DoorList(f, l) ==
    IF l.tag = "value" THEN Collect(f, [i \in 1..Len(l.v) |-> Door(l.v[i])]) ELSE Ok(Null)

---------------------------------------------------------------------------
(* Face, Room, Model                                                       *)

\* class FaceType(str, Enum)
FaceType == {"Wall", "Floor", "RoofCeiling", "AirWall"}

\* face_type: FaceType
FaceTypeField(t) ==
    IF t.tag = "absent" THEN Missing("face_type")
    ELSE IF t.tag = "null" THEN NoneNotAllowed("face_type")
    ELSE IF t.v \in FaceType THEN Ok(t.v)
    ELSE Fail("face_type", "type_error.enum")

\* Face(**x): x = [name, type, geometry, face_type, boundary_condition, apertures, doors,
\*                 indoor_shades, outdoor_shades, properties]
Face(x) ==
    Build(<<"name", "type", "geometry", "face_type", "boundary_condition",
            "apertures", "doors",
            "indoor_shades", "outdoor_shades", "properties">>,
          <<NameField(x.name), TypeField("Face", x.type), GeometryField(x.geometry),
            FaceTypeField(x.face_type),
            BoundaryConditionField(FaceBC, FaceArity, x.boundary_condition),
            ApertureList("apertures", x.apertures),
            DoorList("doors", x.doors),
            ShadeList("indoor_shades", x.indoor_shades),
            ShadeList("outdoor_shades", x.outdoor_shades),
            PropertiesField(x.properties, FALSE)>>)

\* a field List[Face] = Field(default=None)
FaceList(f, l) ==
    IF l.tag = "value" THEN Collect(f, [i \in 1..Len(l.v) |-> Face(l.v[i])]) ELSE Ok(Null)

\* one face fewer asked of a Room
MinFaces_one_less == 4 - 1

\* min_items=4 of Room.faces
MinFaces == 4

\* faces: List[Face] = Field(..., min_items=4): the length is checked on the
\* list as given, before its items are validated
RoomFaces(l) ==
    IF l.tag = "absent" THEN Missing("faces")
    ELSE IF l.tag = "null" THEN NoneNotAllowed("faces")
    ELSE IF Len(l.v) < MinFaces THEN Fail("faces", "value_error.list.min_items")
    ELSE FaceList("faces", l)

\* Room(**x): x = [name, type, faces, indoor_shades, outdoor_shades, properties]
Room(x) ==
    Build(<<"name", "type", "faces", "indoor_shades", "outdoor_shades", "properties">>,
          <<NameField(x.name), TypeField("Room", x.type), RoomFaces(x.faces),
            ShadeList("indoor_shades", x.indoor_shades),
            ShadeList("outdoor_shades", x.outdoor_shades),
            PropertiesField(x.properties, TRUE)>>)

\* rooms: List[Room] = Field(default=None)
RoomList(f, l) ==
    IF l.tag = "value" THEN Collect(f, [i \in 1..Len(l.v) |-> Room(l.v[i])]) ELSE Ok(Null)

\* north_angle: float = Field(default=0, ge=0, lt=360); an angle is held as a
\* whole number of steps, AngleResolution steps to the degree
north_angle_default == 0
north_angle_ge == 0
north_angle_lt == 360

\* north_angle with le=360 in place of lt=360
NorthAngle_le(a) ==
    IF a.tag = "absent" THEN Ok(Flt(north_angle_default * AngleResolution))
    ELSE IF a.tag = "null" THEN NoneNotAllowed("north_angle")
    ELSE IF ~ (float_validator(a.v).v >= north_angle_ge * AngleResolution)
         THEN Fail("north_angle", "value_error.number.not_ge")
    ELSE IF ~ (float_validator(a.v).v <= north_angle_lt * AngleResolution)
         THEN Fail("north_angle", "value_error.number.not_le")
    ELSE Ok(float_validator(a.v))

NorthAngle(a) ==
    IF a.tag = "absent" THEN Ok(Flt(north_angle_default * AngleResolution))
    ELSE IF a.tag = "null" THEN NoneNotAllowed("north_angle")
    ELSE IF ~ (float_validator(a.v).v >= north_angle_ge * AngleResolution)
         THEN Fail("north_angle", "value_error.number.not_ge")
    ELSE IF ~ (float_validator(a.v).v < north_angle_lt * AngleResolution)
         THEN Fail("north_angle", "value_error.number.not_lt")
    ELSE Ok(float_validator(a.v))

\* the names of the entities reachable from a given record, in traversal order
ShadeListNames(l) ==
    IF l.tag = "value" THEN [i \in 1..Len(l.v) |-> l.v[i].name.v] ELSE <<>>
ApertureNames(a) ==
    <<a.name.v>> \o ShadeListNames(a.indoor_shades) \o ShadeListNames(a.outdoor_shades)
ApertureListNames(l) ==
    IF l.tag = "value" THEN Flatten([i \in 1..Len(l.v) |-> ApertureNames(l.v[i])]) ELSE <<>>
DoorListNames(l) ==
    IF l.tag = "value" THEN [i \in 1..Len(l.v) |-> l.v[i].name.v] ELSE <<>>
FaceNames(f) ==
    <<f.name.v>> \o ApertureListNames(f.apertures) \o DoorListNames(f.doors)
        \o ShadeListNames(f.indoor_shades) \o ShadeListNames(f.outdoor_shades)
FaceListNames(l) ==
    IF l.tag = "value" THEN Flatten([i \in 1..Len(l.v) |-> FaceNames(l.v[i])]) ELSE <<>>
RoomNames(r) ==
    <<r.name.v>> \o FaceListNames(r.faces)
        \o ShadeListNames(r.indoor_shades) \o ShadeListNames(r.outdoor_shades)
RoomListNames(l) ==
    IF l.tag = "value" THEN Flatten([i \in 1..Len(l.v) |-> RoomNames(l.v[i])]) ELSE <<>>
ModelNames(x) ==
    RoomListNames(x.rooms) \o FaceListNames(x.orphaned_faces)
        \o ShadeListNames(x.orphaned_shades)
        \o ApertureListNames(x.orphaned_apertures) \o DoorListNames(x.orphaned_doors)

\* Model with a check of the names: two entities of one name are an error
Model_unique_names(x) ==
    Build(<<"name", "type", "rooms", "orphaned_faces", "orphaned_shades",
            "orphaned_apertures", "orphaned_doors", "north_angle", "properties">>,
          <<IF \E i \in 1..Len(ModelNames(x)) : \E j \in 1..Len(ModelNames(x)) :
                    i < j /\ ModelNames(x)[i] = ModelNames(x)[j]
            THEN Fail("name", "value_error.duplicate") ELSE NameField(x.name),
            TypeField("Model", x.type),
            RoomList("rooms", x.rooms),
            FaceList("orphaned_faces", x.orphaned_faces),
            ShadeList("orphaned_shades", x.orphaned_shades),
            ApertureList("orphaned_apertures", x.orphaned_apertures),
            DoorList("orphaned_doors", x.orphaned_doors),
            NorthAngle(x.north_angle),
            PropertiesField(x.properties, TRUE)>>)

\* Model in which orphaned faces need rooms to belong to
Model_orphans_need_rooms(x) ==
    Build(<<"name", "type", "rooms", "orphaned_faces", "orphaned_shades",
            "orphaned_apertures", "orphaned_doors", "north_angle", "properties">>,
          <<NameField(x.name), TypeField("Model", x.type),
            RoomList("rooms", x.rooms),
            IF x.orphaned_faces.tag = "value" /\ x.orphaned_faces.v # <<>>
                    /\ x.rooms.tag # "value"
            THEN Fail("orphaned_faces", "value_error.orphan")
            ELSE FaceList("orphaned_faces", x.orphaned_faces),
            ShadeList("orphaned_shades", x.orphaned_shades),
            ApertureList("orphaned_apertures", x.orphaned_apertures),
            DoorList("orphaned_doors", x.orphaned_doors),
            NorthAngle(x.north_angle),
            PropertiesField(x.properties, TRUE)>>)

\* Model(**x): x = [name, type, rooms, orphaned_faces, orphaned_shades,
\*                  orphaned_apertures, orphaned_doors, north_angle, properties]
Model(x) ==
    Build(<<"name", "type", "rooms", "orphaned_faces", "orphaned_shades",
            "orphaned_apertures", "orphaned_doors", "north_angle", "properties">>,
          <<NameField(x.name), TypeField("Model", x.type),
            RoomList("rooms", x.rooms),
            FaceList("orphaned_faces", x.orphaned_faces),
            ShadeList("orphaned_shades", x.orphaned_shades),
            ApertureList("orphaned_apertures", x.orphaned_apertures),
            DoorList("orphaned_doors", x.orphaned_doors),
            NorthAngle(x.north_angle),
            PropertiesField(x.properties, TRUE)>>)

---------------------------------------------------------------------------
(* BaseModel.dict(): the object as a key-value record, nested objects and  *)
(* lists of them included, every declared field present.                   *)

Plane_dict(o) == [type |-> Val(o.type), n |-> o.n, o |-> o.o, x |-> o.x]

Face3D_dict(o) ==
    [type |-> Val(o.type),
     boundary |-> o.boundary,
     holes |-> IF o.holes.tag = "null" THEN Null
               ELSE Val([l \in 1..Len(o.holes.v) |-> o.holes.v[l]]),
     plane |-> IF o.plane.tag = "null" THEN Null ELSE Val(Plane_dict(o.plane.v))]

Properties_dict(p) == Val([energy |-> p.energy])

Shade_dict(o) ==
    [name |-> Val(o.name),
     type |-> Val(o.type),
     geometry |-> Val(Face3D_dict(o.geometry)),
     properties |-> Properties_dict(o.properties)]

ShadeList_dict(l) ==
    IF l.tag = "null" THEN Null ELSE Val([i \in 1..Len(l.v) |-> Shade_dict(l.v[i])])

Door_dict(o) ==
    [name |-> Val(o.name),
     type |-> Val(o.type),
     geometry |-> Val(Face3D_dict(o.geometry)),
     boundary_condition |-> Val(o.boundary_condition),
     is_glass |-> Val(o.is_glass),
     properties |-> Properties_dict(o.properties)]

Aperture_dict(o) ==
    [name |-> Val(o.name),
     type |-> Val(o.type),
     geometry |-> Val(Face3D_dict(o.geometry)),
     boundary_condition |-> Val(o.boundary_condition),
     is_operable |-> Val(o.is_operable),
     indoor_shades |-> ShadeList_dict(o.indoor_shades),
     outdoor_shades |-> ShadeList_dict(o.outdoor_shades),
     properties |-> Properties_dict(o.properties)]

DoorList_dict(l) ==
    IF l.tag = "null" THEN Null ELSE Val([i \in 1..Len(l.v) |-> Door_dict(l.v[i])])
ApertureList_dict(l) ==
    IF l.tag = "null" THEN Null ELSE Val([i \in 1..Len(l.v) |-> Aperture_dict(l.v[i])])

Face_dict(o) ==
    [name |-> Val(o.name),
     type |-> Val(o.type),
     geometry |-> Val(Face3D_dict(o.geometry)),
     face_type |-> Val(o.face_type),
     boundary_condition |-> Val(o.boundary_condition),
     apertures |-> ApertureList_dict(o.apertures),
     doors |-> DoorList_dict(o.doors),
     indoor_shades |-> ShadeList_dict(o.indoor_shades),
     outdoor_shades |-> ShadeList_dict(o.outdoor_shades),
     properties |-> Properties_dict(o.properties)]

FaceList_dict(l) ==
    IF l.tag = "null" THEN Null ELSE Val([i \in 1..Len(l.v) |-> Face_dict(l.v[i])])

Room_dict(o) ==
    [name |-> Val(o.name),
     type |-> Val(o.type),
     faces |-> FaceList_dict(o.faces),
     indoor_shades |-> ShadeList_dict(o.indoor_shades),
     outdoor_shades |-> ShadeList_dict(o.outdoor_shades),
     properties |-> Properties_dict(o.properties)]

RoomList_dict(l) ==
    IF l.tag = "null" THEN Null ELSE Val([i \in 1..Len(l.v) |-> Room_dict(l.v[i])])

Model_dict(o) ==
    [name |-> Val(o.name),
     type |-> Val(o.type),
     rooms |-> RoomList_dict(o.rooms),
     orphaned_faces |-> FaceList_dict(o.orphaned_faces),
     orphaned_shades |-> ShadeList_dict(o.orphaned_shades),
     orphaned_apertures |-> ApertureList_dict(o.orphaned_apertures),
     orphaned_doors |-> DoorList_dict(o.orphaned_doors),
     north_angle |-> Val(o.north_angle),
     properties |-> Properties_dict(o.properties)]

---------------------------------------------------------------------------
(* Inputs tried.                                                           *)

HomPoint(n) == [j \in 1..n |-> Flt(0)]
UnitX == <<Flt(1), Flt(0), Flt(0)>>
StrPoint == <<Str(1), Flt(0), Flt(0)>>
Points == {HomPoint(n) : n \in 0..MaxCoords} \cup {UnitX, StrPoint}
LoopPoints == {HomPoint(HolePointLen - 1), HomPoint(HolePointLen), HomPoint(HolePointLen + 1)}

Triangle == <<HomPoint(BoundaryPointLen), UnitX, HomPoint(BoundaryPointLen)>>
Boundaries == SeqsUpTo(Points, MaxPts)
Loops == SeqsUpTo(LoopPoints, MaxLoopPts)
HoleLists == SeqsUpTo(Loops, MaxHoles)
Holes == {Absent, Null} \cup {Val(h) : h \in HoleLists}

Planes ==
    {Absent, Null} \cup
    {Val([type |-> Absent, n |-> n, o |-> Val(HomPoint(PlaneMinItems)), x |-> x]) :
        n \in {Absent} \cup {Val(p) : p \in Points}, x \in {Absent, Null, Val(UnitX)}}

Face3DInputs ==
    {[type |-> Absent, boundary |-> b, holes |-> h, plane |-> Absent] :
        b \in Boundaries, h \in {Absent, Null, Val(<<>>), Val(<<Triangle>>)}}
    \cup
    {[type |-> t, boundary |-> Triangle, holes |-> h, plane |-> Absent] :
        t \in {Absent, Val("Face3D"), Val("Shade")}, h \in {Absent, Null}}
    \cup
    {[type |-> Absent, boundary |-> Triangle, holes |-> Absent, plane |-> pl] :
        pl \in Planes}
    \cup
    {[type |-> Absent, boundary |-> b, holes |-> h, plane |-> Absent] :
        b \in {<<UnitX, HomPoint(BoundaryPointLen), UnitX>>,
               <<StrPoint, UnitX, HomPoint(BoundaryPointLen)>>},
        h \in Holes}

Geo == Val([type |-> Absent, boundary |-> Triangle, holes |-> Absent, plane |-> Absent])
BadGeo == Val([type |-> Absent,
               boundary |-> <<HomPoint(BoundaryPointLen - 1), UnitX, UnitX>>,
               holes |-> Absent, plane |-> Absent])
Props == Val([energy |-> Val("energy")])
PropsNoEnergy == Val([energy |-> Absent])

RefNames == <<"r1", "r2", "r3", "r4", "r5", "r6">>
BCOf(t) == Val([type |-> t, boundary_condition_objects |-> Absent])
SurfaceBC(n) ==
    Val([type |-> "Surface", boundary_condition_objects |-> Val(SubSeq(RefNames, 1, n))])
BCTypes == {"Ground", "Outdoors", "Adiabatic", "Surface"}
BCInputs == {Absent} \cup {BCOf(t) : t \in BCTypes} \cup {SurfaceBC(n) : n \in 0..MaxObjs}

NamedShade(n) == [name |-> Val(n), type |-> Absent, geometry |-> Geo, properties |-> PropsNoEnergy]
BadShade == [name |-> Val("s0"), type |-> Absent, geometry |-> BadGeo, properties |-> PropsNoEnergy]
ShadeInputs ==
    {[name |-> n, type |-> t, geometry |-> g, properties |-> p] :
        n \in {Absent, Val(""), Val("s1")}, t \in {Absent, Val("Shade"), Val("Door")},
        g \in {Absent, Geo, BadGeo},
        p \in {Absent, PropsNoEnergy, Props}}
ShadeLists ==
    {Absent, Null}
    \cup {Val(l) : l \in SeqsUpTo({NamedShade("s1"), NamedShade("s2"), BadShade}, MaxShades)}

NamedDoor(n, bc) ==
    [name |-> Val(n), type |-> Absent, geometry |-> Geo, boundary_condition |-> bc,
     is_glass |-> Absent, properties |-> PropsNoEnergy]
DoorInputs ==
    {[name |-> n, type |-> Absent, geometry |-> g, boundary_condition |-> bc, is_glass |-> b,
      properties |-> p] :
        n \in {Val(""), Val("d1")}, g \in {Geo, BadGeo}, bc \in BCInputs,
        b \in {Absent, Val(TRUE), Val(FALSE)}, p \in {Absent, PropsNoEnergy}}

NamedAperture(n, bc) ==
    [name |-> Val(n), type |-> Absent, geometry |-> Geo, boundary_condition |-> bc,
     is_operable |-> Absent, indoor_shades |-> Absent, outdoor_shades |-> Absent,
     properties |-> PropsNoEnergy]
ApertureInputs ==
    {[name |-> Val("a1"), type |-> Absent, geometry |-> g, boundary_condition |-> bc, is_operable |-> b,
      indoor_shades |-> i, outdoor_shades |-> o, properties |-> PropsNoEnergy] :
        g \in {Geo, BadGeo}, bc \in BCInputs, b \in {Absent, Val(TRUE), Val(FALSE)},
        i \in ShadeLists, o \in {Absent, Val(<<BadShade>>)}}

ApertureSamples ==
    {NamedAperture("a1", BCOf("Outdoors")), NamedAperture("a2", SurfaceBC(ApertureArity)),
     NamedAperture("a3", SurfaceBC(ApertureArity - 1))}
ApertureLists ==
    {Absent, Null} \cup {Val(l) : l \in SeqsUpTo(ApertureSamples, MaxApertures)}
DoorLists ==
    {Absent, Val(<<NamedDoor("d1", SurfaceBC(DoorArity))>>),
     Val(<<NamedDoor("d2", BCOf("Ground"))>>),
     Val(<<NamedDoor("d1", BCOf("Outdoors")), NamedDoor("d2", SurfaceBC(DoorArity - 1))>>)}

NamedFace(n, bc, aps) ==
    [name |-> Val(n), type |-> Absent, geometry |-> Geo, face_type |-> Val("Wall"),
     boundary_condition |-> bc,
     apertures |-> aps, doors |-> Absent, indoor_shades |-> Absent,
     outdoor_shades |-> Absent, properties |-> PropsNoEnergy]
FaceInputs ==
    {[name |-> Val("f1"), type |-> Absent, geometry |-> g, face_type |-> Val("Floor"),
      boundary_condition |-> bc, apertures |-> a, doors |-> d, indoor_shades |-> Absent,
      outdoor_shades |-> Absent, properties |-> PropsNoEnergy] :
        g \in {Geo, BadGeo}, bc \in BCInputs, a \in ApertureLists, d \in DoorLists}
    \cup
    {[name |-> Val("f1"), type |-> t, geometry |-> Geo, face_type |-> ft,
      boundary_condition |-> bc, apertures |-> a, doors |-> Absent,
      indoor_shades |-> Absent, outdoor_shades |-> Absent, properties |-> PropsNoEnergy] :
        t \in {Absent, Val("Face"), Val("Room")},
        ft \in {Absent, Null, Val("Window")} \cup {Val(f) : f \in FaceType},
        bc \in {BCOf("Ground"), SurfaceBC(FaceArity), SurfaceBC(FaceArity + 1)},
        a \in {Absent, Val(<<NamedAperture("a1", SurfaceBC(ApertureArity - 1))>>)}}

FaceSamples ==
    {NamedFace("f1", BCOf("Outdoors"), Absent),
     NamedFace("f2", SurfaceBC(FaceArity + 1), Absent),
     NamedFace("f3", BCOf("Ground"),
               Val(<<NamedAperture("a1", BCOf("Outdoors")),
                     NamedAperture("a2", SurfaceBC(ApertureArity - 1))>>))}
RoomInputs ==
    {[name |-> n, type |-> Absent, faces |-> f, indoor_shades |-> Absent, outdoor_shades |-> Absent,
      properties |-> p] :
        n \in {Val(""), Val("room1")},
        f \in {Absent, Null} \cup {Val(l) : l \in SeqsUpTo(FaceSamples, MaxFaces)},
        p \in {Absent, PropsNoEnergy, Props}}

\* a valid room of four faces, the first hosting one aperture
NamedRoom(rn, fn, an) ==
    [name |-> Val(rn), type |-> Absent,
     faces |-> Val(<<NamedFace(fn, BCOf("Outdoors"), Val(<<NamedAperture(an, BCOf("Outdoors"))>>)),
                     NamedFace("f2", BCOf("Ground"), Absent),
                     NamedFace("f3", BCOf("Adiabatic"), Absent),
                     NamedFace("f4", SurfaceBC(FaceArity), Absent)>>),
     indoor_shades |-> Absent, outdoor_shades |-> Val(<<NamedShade("s1")>>),
     properties |-> Props]
ThreeFaceRoom ==
    [name |-> Val("room3"), type |-> Absent,
     faces |-> Val(<<NamedFace("f1", BCOf("Outdoors"), Absent),
                     NamedFace("f2", BCOf("Ground"), Absent),
                     NamedFace("f3", BCOf("Adiabatic"), Absent)>>),
     indoor_shades |-> Absent, outdoor_shades |-> Absent, properties |-> Props]
\* names of a room, its first face and that face's aperture
TreeNames ==
    {<<"n1", "n2", "n3">>, <<"n1", "n1", "n3">>, <<"n1", "n2", "n1">>,
     <<"n9", "n2", "n2">>, <<"m1", "m2", "m3">>}
OrphanFaces == {NamedFace(n, BCOf("Outdoors"), Absent) : n \in {"n1", "n4"}}
NorthSteps ==
    {0 - AngleResolution, 0 - 1, 0, 1, 90 * AngleResolution,
     north_angle_lt * AngleResolution - 1, north_angle_lt * AngleResolution,
     north_angle_lt * AngleResolution + 1, (north_angle_lt + 1) * AngleResolution}
ModelInputs ==
    {[name |-> Val("m"), type |-> Absent, rooms |-> r, orphaned_faces |-> f, orphaned_shades |-> s,
      orphaned_apertures |-> a, orphaned_doors |-> d, north_angle |-> Absent,
      properties |-> Props] :
        r \in {Absent, Null, Val(<<>>)}
              \cup {Val(<<NamedRoom(t[1], t[2], t[3])>>) : t \in TreeNames},
        f \in {Absent} \cup {Val(l) : l \in SeqsUpTo(OrphanFaces, MaxOrphans)},
        s \in {Absent, Val(<<NamedShade("n2")>>), Val(<<NamedShade("n5")>>)},
        a \in {Absent, Val(<<NamedAperture("n3", BCOf("Outdoors"))>>),
               Val(<<NamedAperture("n6", SurfaceBC(ApertureArity))>>)},
        d \in {Absent, Val(<<NamedDoor("n1", BCOf("Outdoors"))>>),
               Val(<<NamedDoor("n7", SurfaceBC(DoorArity))>>),
               Val(<<NamedDoor("n8", BCOf("Adiabatic"))>>)}}
    \cup
    {[name |-> n, type |-> Absent, rooms |-> r, orphaned_faces |-> f, orphaned_shades |-> Absent,
      orphaned_apertures |-> Absent, orphaned_doors |-> Absent, north_angle |-> a,
      properties |-> p] :
        n \in {Val(""), Val("m")},
        r \in {Absent, Val(<<NamedRoom("n1", "n2", "n3")>>), Val(<<ThreeFaceRoom>>)},
        f \in {Absent, Val(<<NamedFace("n4", BCOf("Outdoors"), Absent)>>)},
        a \in {Absent, Null} \cup {Val(Flt(k)) : k \in NorthSteps}
              \cup {Val(Str(90 * AngleResolution)), Val(Str(north_angle_lt * AngleResolution))},
        p \in {Absent, PropsNoEnergy, Props}}

---------------------------------------------------------------------------
(* The state machine: a record is given, the class is constructed from it, *)
(* and the object, when there is one, is serialized with dict().           *)

Init ==
    /\ pc = "given"
    /\ result = NotBuilt
    /\ output = NoValue
    /\ \/ kind = "Face3D" /\ input \in Face3DInputs
       \/ kind = "Shade" /\ input \in ShadeInputs
       \/ kind = "Door" /\ input \in DoorInputs
       \/ kind = "Aperture" /\ input \in ApertureInputs
       \/ kind = "Face" /\ input \in FaceInputs
       \/ kind = "Room" /\ input \in RoomInputs
       \/ kind = "Model" /\ input \in ModelInputs

ConstructFace3D ==
    /\ pc = "given" /\ kind = "Face3D"
    /\ result' = Face3D(input)
    /\ pc' = "constructed"
    /\ UNCHANGED <<kind, input, output>>

ConstructShade ==
    /\ pc = "given" /\ kind = "Shade"
    /\ result' = Shade(input)
    /\ pc' = "constructed"
    /\ UNCHANGED <<kind, input, output>>

ConstructDoor ==
    /\ pc = "given" /\ kind = "Door"
    /\ result' = Door(input)
    /\ pc' = "constructed"
    /\ UNCHANGED <<kind, input, output>>

ConstructAperture ==
    /\ pc = "given" /\ kind = "Aperture"
    /\ result' = Aperture(input)
    /\ pc' = "constructed"
    /\ UNCHANGED <<kind, input, output>>

ConstructFace ==
    /\ pc = "given" /\ kind = "Face"
    /\ result' = Face(input)
    /\ pc' = "constructed"
    /\ UNCHANGED <<kind, input, output>>

ConstructRoom ==
    /\ pc = "given" /\ kind = "Room"
    /\ result' = Room(input)
    /\ pc' = "constructed"
    /\ UNCHANGED <<kind, input, output>>

ConstructModel ==
    /\ pc = "given" /\ kind = "Model"
    /\ result' = Model(input)
    /\ pc' = "constructed"
    /\ UNCHANGED <<kind, input, output>>

\* dict() of the object of the class constructed
Dict(k, o) ==
    CASE k = "Face3D" -> Face3D_dict(o)
      [] k = "Shade" -> Shade_dict(o)
      [] k = "Door" -> Door_dict(o)
      [] k = "Aperture" -> Aperture_dict(o)
      [] k = "Face" -> Face_dict(o)
      [] k = "Room" -> Room_dict(o)
      [] k = "Model" -> Model_dict(o)

Serialize ==
    /\ pc = "constructed" /\ result.errors = <<>>
    /\ output' = Dict(kind, result.value)
    /\ pc' = "serialized"
    /\ UNCHANGED <<kind, input, result>>

Next ==
    \/ ConstructFace3D
    \/ ConstructShade
    \/ ConstructDoor
    \/ ConstructAperture
    \/ ConstructFace
    \/ ConstructRoom
    \/ ConstructModel
    \/ Serialize

Spec == Init /\ [][Next]_vars

---------------------------------------------------------------------------
(* Properties.                                                             *)

Range(q) == {q[i] : i \in 1..Len(q)}
Constructed == pc # "given"
Succeeded == Constructed /\ result.errors = <<>>
Failed == Constructed /\ result.errors # <<>>
\* the errors reported under the top-level field f
ErrorsAt(f) == {e \in Range(result.errors) : e.loc[1].f = f}

(* ---- C1 ---- *)

\* the required number of boundary_condition_objects, by owner
OwnerArity(k) == CASE k = "Face" -> 2 [] k = "Aperture" -> 3 [] k = "Door" -> 3

SurfaceGiven ==
    /\ kind \in {"Face", "Aperture", "Door"}
    /\ input.boundary_condition.tag = "value"
    /\ input.boundary_condition.v.type = "Surface"
    /\ input.boundary_condition.v.boundary_condition_objects.tag = "value"
GivenObjects == input.boundary_condition.v.boundary_condition_objects.v
ArityError == Err(<<Fld("boundary_condition")>>, "assertion_error")

\* C1: a Face, Aperture or Door whose boundary condition is a Surface is
\* constructed only if the number of boundary_condition_objects is the
\* owner's arity (Face 2, Aperture 3, Door 3); with any other number the
\* construction fails and reports the arity error on boundary_condition,
\* and with the right number it reports no such error.
C1_SurfaceArity ==
    (Constructed /\ SurfaceGiven) =>
        /\ Succeeded => Len(GivenObjects) = OwnerArity(kind)
        /\ Len(GivenObjects) # OwnerArity(kind) =>
                Failed /\ ArityError \in Range(result.errors)
        /\ Len(GivenObjects) = OwnerArity(kind) => ErrorsAt("boundary_condition") = {}

\* an Aperture whose Surface names two objects was rejected for its arity
C1_Witness ==
    /\ Constructed /\ SurfaceGiven /\ kind = "Aperture"
    /\ Len(GivenObjects) = 2
    /\ Failed /\ ArityError \in Range(result.errors)

(* ---- C2 ---- *)

BadBoundaryPoint(x) == \E i \in 1..Len(x.boundary) : Len(x.boundary[i]) # 3
BadHolePoint(x) ==
    /\ x.holes.tag = "value"
    /\ \E l \in 1..Len(x.holes.v) : \E p \in 1..Len(x.holes.v[l]) :
            Len(x.holes.v[l][p]) # 3
GeometryError == ErrorsAt("boundary") \cup ErrorsAt("holes") # {}

\* C2: constructing a Face3D fails with an error of its geometry (boundary
\* or holes) if and only if some point of the boundary or of a hole loop has
\* a number of coordinates other than 3; holes absent or null included.
C2_GeometryErrorIffBadPoint ==
    (Constructed /\ kind = "Face3D") =>
        (GeometryError <=> (BadBoundaryPoint(input) \/ BadHolePoint(input)))

(* ---- C9 ---- *)

\* C9: every constructed Face3D has a boundary of at least 3 points.
C9_BoundaryAtLeast3 ==
    (Succeeded /\ kind = "Face3D") => Len(result.value.boundary) >= 3

(* ---- C10 ---- *)

GivenBCType == input.boundary_condition.v.type

\* C10: every constructed Door or Aperture has a boundary condition of
\* variant Outdoors or Surface, and a Door or Aperture given the
\* discriminator Ground or Adiabatic is rejected; a Face given Ground,
\* Outdoors or Adiabatic, or a Surface of two objects, gets no error on its
\* boundary condition.
C10_BoundaryConditionVariants ==
    /\ (Succeeded /\ kind \in {"Door", "Aperture"}) =>
            result.value.boundary_condition.type \in {"Outdoors", "Surface"}
    /\ (Constructed /\ kind \in {"Door", "Aperture"}
            /\ input.boundary_condition.tag = "value"
            /\ GivenBCType \in {"Ground", "Adiabatic"}) =>
            Failed /\ ErrorsAt("boundary_condition") # {}
    /\ (Constructed /\ kind = "Face" /\ input.boundary_condition.tag = "value"
            /\ (GivenBCType \in {"Ground", "Outdoors", "Adiabatic"}
                    \/ (SurfaceGiven /\ Len(GivenObjects) = 2))) =>
            /\ ErrorsAt("boundary_condition") = {}
            /\ Succeeded => result.value.boundary_condition.type = GivenBCType

\* a Door given a Ground boundary condition was rejected
C10_Witness ==
    /\ Constructed /\ kind = "Door"
    /\ input.boundary_condition.tag = "value" /\ GivenBCType = "Ground"
    /\ Failed /\ ErrorsAt("boundary_condition") # {}

(* ---- C5 ---- *)

MinItemsError == Err(<<Fld("faces")>>, "value_error.list.min_items")
\* the fields of the given Room other than the length of faces are valid
RoomPartsValid ==
    /\ NameField(input.name).errors = <<>>
    /\ TypeField("Room", input.type).errors = <<>>
    /\ \A i \in 1..Len(input.faces.v) : Face(input.faces.v[i]).errors = <<>>
    /\ ShadeList("indoor_shades", input.indoor_shades).errors = <<>>
    /\ ShadeList("outdoor_shades", input.outdoor_shades).errors = <<>>
    /\ PropertiesField(input.properties, TRUE).errors = <<>>

\* C5: a Room given fewer than 4 faces (none included) is rejected with the
\* minimum-count error on faces, and a Room given 4 or more faces, each
\* valid by itself, with its other fields valid, is constructed with these
\* faces.
C5_RoomMinFaces ==
    (Constructed /\ kind = "Room" /\ input.faces.tag = "value") =>
        /\ Len(input.faces.v) < 4 => Failed /\ MinItemsError \in Range(result.errors)
        /\ (Len(input.faces.v) >= 4 /\ RoomPartsValid) =>
                Succeeded /\ Len(result.value.faces.v) = Len(input.faces.v)

\* a Room of three valid faces, otherwise valid, was rejected for their number
C5_Witness ==
    /\ Constructed /\ kind = "Room" /\ input.faces.tag = "value"
    /\ Len(input.faces.v) = 3 /\ RoomPartsValid
    /\ Failed /\ MinItemsError \in Range(result.errors)

(* ---- C6 ---- *)

NorthGiven == kind = "Model" /\ input.north_angle.tag = "value"
\* the angle given, in steps
GivenNorth == input.north_angle.v.v
NorthInRange == 0 <= GivenNorth /\ GivenNorth < 360 * AngleResolution

\* C6: a Model is constructed without an error on north_angle exactly when
\* 0 <= north_angle < 360: 360, anything above and anything negative fail
\* the construction; the angle constructed is the one given, and 0 when
\* north_angle is omitted.
C6_NorthAngleRange ==
    (Constructed /\ kind = "Model") =>
        /\ NorthGiven => (ErrorsAt("north_angle") = {} <=> NorthInRange)
        /\ (NorthGiven /\ ~ NorthInRange) => Failed
        /\ (NorthGiven /\ Succeeded) => result.value.north_angle.v = GivenNorth
        /\ input.north_angle.tag = "absent" =>
                /\ ErrorsAt("north_angle") = {}
                /\ Succeeded => result.value.north_angle = Flt(0)

\* a Model given north_angle = 360 was rejected
C6_Witness ==
    /\ Constructed /\ NorthGiven /\ GivenNorth = 360 * AngleResolution
    /\ Failed /\ ErrorsAt("north_angle") # {}

(* ---- C3 ---- *)

HasDuplicate(q) == \E i \in 1..Len(q) : \E j \in 1..Len(q) : i < j /\ q[i] = q[j]

\* every part of the given Model is valid by itself
ModelPartsValid ==
    /\ NameField(input.name).errors = <<>>
    /\ TypeField("Model", input.type).errors = <<>>
    /\ RoomList("rooms", input.rooms).errors = <<>>
    /\ FaceList("orphaned_faces", input.orphaned_faces).errors = <<>>
    /\ ShadeList("orphaned_shades", input.orphaned_shades).errors = <<>>
    /\ ApertureList("orphaned_apertures", input.orphaned_apertures).errors = <<>>
    /\ DoorList("orphaned_doors", input.orphaned_doors).errors = <<>>
    /\ NorthAngle(input.north_angle).errors = <<>>
    /\ PropertiesField(input.properties, TRUE).errors = <<>>

NoneGiven(l) == l.tag # "value" \/ l.v = <<>>
OrphansWithoutRooms ==
    /\ kind = "Model"
    /\ NoneGiven(input.rooms)
    /\ \/ ~ NoneGiven(input.orphaned_faces)
       \/ ~ NoneGiven(input.orphaned_apertures)
       \/ ~ NoneGiven(input.orphaned_doors)
SameLength(l, m) == l.tag = "value" => (m.tag = "value" /\ Len(m.v) = Len(l.v))

FieldOrder(k) ==
    IF k = "Face"
    THEN <<"name", "type", "geometry", "face_type", "boundary_condition", "apertures",
           "doors", "indoor_shades", "outdoor_shades", "properties">>
    ELSE <<"name", "type", "faces", "indoor_shades", "outdoor_shades", "properties">>
Pos(q, e) == CHOOSE i \in 1..Len(q) : q[i] = e
\* location l is not after location m in the traversal of a k
NotAfter(k, l, m) ==
    \/ Pos(FieldOrder(k), l.f) < Pos(FieldOrder(k), m.f)
    \/ l.f = m.f /\ l.i <= m.i
ErrorsInOrder ==
    \A m \in 1..Len(result.errors) : \A n \in 1..Len(result.errors) :
        m < n => NotAfter(kind, result.errors[m].loc[1], result.errors[n].loc[1])

\* the children of the given Face (its apertures) or Room (its faces) that
\* are traversed, and the errors of child i built by itself
ChildField == IF kind = "Face" THEN "apertures" ELSE "faces"
ChildList == IF kind = "Face" THEN input.apertures ELSE input.faces
ChildrenTraversed ==
    /\ kind \in {"Face", "Room"}
    /\ ChildList.tag = "value"
    /\ kind = "Room" => Len(ChildList.v) >= 4
ChildErrors(i) ==
    IF kind = "Face" THEN Aperture(ChildList.v[i]).errors ELSE Face(ChildList.v[i]).errors
InvalidChildren == {i \in 1..Len(ChildList.v) : ChildErrors(i) # <<>>}
FirstInvalid == CHOOSE i \in InvalidChildren : \A j \in InvalidChildren : i <= j
\* the fields declared before the children are valid
EarlierFieldsValid ==
    /\ NameField(input.name).errors = <<>>
    /\ TypeField(kind, input.type).errors = <<>>
    /\ kind = "Face" =>
            /\ GeometryField(input.geometry).errors = <<>>
            /\ FaceTypeField(input.face_type).errors = <<>>
            /\ BoundaryConditionField(FaceBC, FaceArity, input.boundary_condition).errors = <<>>

\* C4 as stated: a failed construction of a Face or Room produces no entity
\* and surfaces one violation, the first found.
C4_OnlyFirstViolation ==
    (Failed /\ kind \in {"Face", "Room"}) =>
        /\ result.value = NoValue
        /\ Len(result.errors) = 1

\* C4, amended: a Face or Room with an invalid child at any depth fails as
\* a whole and produces no entity; every violation found is reported, not
\* only the first, each under the path of its child, in traversal order
\* (fields in declaration order, children in list order), so that the first
\* violation reported is the first found.
C4_AtomicAllInOrder ==
    /\ (Failed /\ kind \in {"Face", "Room"}) =>
            result.value = NoValue /\ ErrorsInOrder
    /\ (Constructed /\ ChildrenTraversed) =>
            /\ \A i \in InvalidChildren :
                    /\ Failed
                    /\ Range(Under(Item(ChildField, i - 1), ChildErrors(i)))
                            \subseteq Range(result.errors)
            /\ (InvalidChildren # {} /\ EarlierFieldsValid) =>
                    result.errors[1] =
                        Under(Item(ChildField, FirstInvalid - 1),
                              ChildErrors(FirstInvalid))[1]

\* a Room whose first and another face are invalid was rejected with more
\* than one violation, the first being the invalid aperture of its first face
C4_Witness ==
    /\ Failed /\ kind = "Room" /\ ChildrenTraversed
    /\ Cardinality(InvalidChildren) >= 2
    /\ Len(result.errors) >= 2
    /\ result.errors[1].loc =
            <<Item("faces", 0), Item("apertures", 1), Fld("boundary_condition")>>

(* ---- C8 ---- *)

\* the given record with each absent field at its default: null for an
\* optional field, the class name for type, false for a flag, 0 for
\* north_angle
OrNull(l) == IF l.tag = "absent" THEN Null ELSE l
TypeOr(name, t) == IF t.tag = "absent" THEN Val(name) ELSE t
Plane_expected(p) ==
    [type |-> TypeOr("Plane", p.type),
     n |-> p.n, o |-> p.o, x |-> OrNull(p.x)]
Face3D_expected(x) ==
    [type |-> TypeOr("Face3D", x.type),
     boundary |-> x.boundary,
     holes |-> OrNull(x.holes),
     plane |-> IF x.plane.tag = "value" THEN Val(Plane_expected(x.plane.v)) ELSE Null]
Geometry_expected(g) == Val(Face3D_expected(g.v))
Properties_expected(p) == Val([energy |-> OrNull(p.v.energy)])
Flag_expected(b) == IF b.tag = "absent" THEN Val(FALSE) ELSE b
Shade_expected(x) ==
    [name |-> x.name, type |-> TypeOr("Shade", x.type),
     geometry |-> Geometry_expected(x.geometry),
     properties |-> Properties_expected(x.properties)]
ShadeList_expected(l) ==
    IF l.tag = "value" THEN Val([i \in 1..Len(l.v) |-> Shade_expected(l.v[i])]) ELSE Null
Door_expected(x) ==
    [name |-> x.name, type |-> TypeOr("Door", x.type),
     geometry |-> Geometry_expected(x.geometry),
     boundary_condition |-> x.boundary_condition,
     is_glass |-> Flag_expected(x.is_glass),
     properties |-> Properties_expected(x.properties)]
DoorList_expected(l) ==
    IF l.tag = "value" THEN Val([i \in 1..Len(l.v) |-> Door_expected(l.v[i])]) ELSE Null
Aperture_expected(x) ==
    [name |-> x.name, type |-> TypeOr("Aperture", x.type),
     geometry |-> Geometry_expected(x.geometry),
     boundary_condition |-> x.boundary_condition,
     is_operable |-> Flag_expected(x.is_operable),
     indoor_shades |-> ShadeList_expected(x.indoor_shades),
     outdoor_shades |-> ShadeList_expected(x.outdoor_shades),
     properties |-> Properties_expected(x.properties)]
ApertureList_expected(l) ==
    IF l.tag = "value" THEN Val([i \in 1..Len(l.v) |-> Aperture_expected(l.v[i])]) ELSE Null
Face_expected(x) ==
    [name |-> x.name, type |-> TypeOr("Face", x.type),
     geometry |-> Geometry_expected(x.geometry),
     face_type |-> x.face_type,
     boundary_condition |-> x.boundary_condition,
     apertures |-> ApertureList_expected(x.apertures),
     doors |-> DoorList_expected(x.doors),
     indoor_shades |-> ShadeList_expected(x.indoor_shades),
     outdoor_shades |-> ShadeList_expected(x.outdoor_shades),
     properties |-> Properties_expected(x.properties)]
FaceList_expected(l) ==
    IF l.tag = "value" THEN Val([i \in 1..Len(l.v) |-> Face_expected(l.v[i])]) ELSE Null
Room_expected(x) ==
    [name |-> x.name, type |-> TypeOr("Room", x.type),
     faces |-> FaceList_expected(x.faces),
     indoor_shades |-> ShadeList_expected(x.indoor_shades),
     outdoor_shades |-> ShadeList_expected(x.outdoor_shades),
     properties |-> Properties_expected(x.properties)]
RoomList_expected(l) ==
    IF l.tag = "value" THEN Val([i \in 1..Len(l.v) |-> Room_expected(l.v[i])]) ELSE Null
Model_expected(x) ==
    [name |-> x.name, type |-> TypeOr("Model", x.type),
     rooms |-> RoomList_expected(x.rooms),
     orphaned_faces |-> FaceList_expected(x.orphaned_faces),
     orphaned_shades |-> ShadeList_expected(x.orphaned_shades),
     orphaned_apertures |-> ApertureList_expected(x.orphaned_apertures),
     orphaned_doors |-> DoorList_expected(x.orphaned_doors),
     north_angle |-> IF x.north_angle.tag = "absent" THEN Val(Flt(0)) ELSE x.north_angle,
     properties |-> Properties_expected(x.properties)]
Expected(k, x) ==
    CASE k = "Face3D" -> Face3D_expected(x)
      [] k = "Shade" -> Shade_expected(x)
      [] k = "Door" -> Door_expected(x)
      [] k = "Aperture" -> Aperture_expected(x)
      [] k = "Face" -> Face_expected(x)
      [] k = "Room" -> Room_expected(x)
      [] k = "Model" -> Model_expected(x)

\* every number of the given record is given as a number
PointsTyped(pts) ==
    \A i \in 1..Len(pts) : \A j \in 1..Len(pts[i]) : pts[i][j].k = "float"
VectorTyped(v) == v.tag = "value" => \A j \in 1..Len(v.v) : v.v[j].k = "float"
Face3DTyped(x) ==
    /\ PointsTyped(x.boundary)
    /\ x.holes.tag = "value" => \A l \in 1..Len(x.holes.v) : PointsTyped(x.holes.v[l])
    /\ x.plane.tag = "value" =>
            VectorTyped(x.plane.v.n) /\ VectorTyped(x.plane.v.o) /\ VectorTyped(x.plane.v.x)
GeometryTyped(g) == g.tag = "value" => Face3DTyped(g.v)
ShadeListTyped(l) ==
    l.tag = "value" => \A i \in 1..Len(l.v) : GeometryTyped(l.v[i].geometry)
DoorListTyped(l) ==
    l.tag = "value" => \A i \in 1..Len(l.v) : GeometryTyped(l.v[i].geometry)
ApertureTyped(x) ==
    /\ GeometryTyped(x.geometry)
    /\ ShadeListTyped(x.indoor_shades) /\ ShadeListTyped(x.outdoor_shades)
ApertureListTyped(l) == l.tag = "value" => \A i \in 1..Len(l.v) : ApertureTyped(l.v[i])
FaceTyped(x) ==
    /\ GeometryTyped(x.geometry)
    /\ ApertureListTyped(x.apertures) /\ DoorListTyped(x.doors)
    /\ ShadeListTyped(x.indoor_shades) /\ ShadeListTyped(x.outdoor_shades)
FaceListTyped(l) == l.tag = "value" => \A i \in 1..Len(l.v) : FaceTyped(l.v[i])
RoomTyped(x) ==
    /\ FaceListTyped(x.faces)
    /\ ShadeListTyped(x.indoor_shades) /\ ShadeListTyped(x.outdoor_shades)
ModelTyped(x) ==
    /\ x.rooms.tag = "value" => \A i \in 1..Len(x.rooms.v) : RoomTyped(x.rooms.v[i])
    /\ FaceListTyped(x.orphaned_faces) /\ ShadeListTyped(x.orphaned_shades)
    /\ ApertureListTyped(x.orphaned_apertures) /\ DoorListTyped(x.orphaned_doors)
    /\ x.north_angle.tag = "value" => x.north_angle.v.k = "float"
Typed(k, x) ==
    CASE k = "Face3D" -> Face3DTyped(x)
      [] k = "Shade" -> GeometryTyped(x.geometry)
      [] k = "Door" -> GeometryTyped(x.geometry)
      [] k = "Aperture" -> ApertureTyped(x)
      [] k = "Face" -> FaceTyped(x)
      [] k = "Room" -> RoomTyped(x)
      [] k = "Model" -> ModelTyped(x)

====
